---- MODULE Spec2Model ----
(***************************************************************************)
(* Video generation orchestration of the video service                     *)
(* (services/video/main.py) over the provider layer (shared/providers) and *)
(* the users / videos / transactions tables (shared/database/models.py).   *)
(*                                                                         *)
(* Money is counted in hundredths of a credit (Numeric(10, 2) columns).    *)
(* One step of the model is one piece of code that runs without yielding:  *)
(* a request handler (none of them awaits), or the part of the background  *)
(* task between two awaits.  Request handlers interleave with a running    *)
(* task at every await that yields to the event loop, and background       *)
(* tasks interleave with one another there.                                *)
(***************************************************************************)
EXTENDS Integers, Sequences, FiniteSets, TLC

VARIABLES
    env,              \* process environment: API keys present, VEO3_USE_MOCK
    credits_balance,  \* users.credits_balance, per user
    videos,           \* the videos table, by video id
    transactions,     \* the transactions table (the credit ledger)
    tasks,            \* one background task per admitted video
    handlers,         \* POST /generate handlers in flight, per service process
    response,         \* what the step just taken returned to its caller
    call,             \* the last call into the provider layer and what it returned
    instances,        \* provider objects returned to callers of the provider layer
    ProviderFactory_providers  \* ProviderFactory._providers, the registry of classes

vars == <<env, credits_balance, videos, transactions, tasks, handlers, response,
          call, instances, ProviderFactory_providers>>

----------------------------------------------------------------------------
(* Bounds of the model *)

(* videos admitted in Spec, where every admitted video runs its task *)
MaxJobs == 1

(* videos admitted in SpecWorkers, where admissions of several processes interleave *)
MaxAdmissions == 2

VideoIds == 1..MaxAdmissions

(* Program constant: poll attempts of process_video_generation *)
max_attempts == 120

----------------------------------------------------------------------------
(* Inputs *)

Users == {"u1", "u2"}

InitialBalance == [u \in Users |-> IF u = "u1" THEN 1000 ELSE 8]

Workers == {"w1", "w2"}

EnvVars == {"GOOGLE_AI_API_KEY", "WAN_API_KEY"}

(* all keys configured, or none *)
Environments == [api_keys : {EnvVars, {}}, veo3_use_mock : {FALSE}]

(* rows of the images table: image id -> owner *)
Images == [img_u1 |-> "u1"]

ImageRefs == {"none", "img_u1", "img_missing"}

(* names of the ProviderType enum, the values the providers.type column takes *)
ProviderType == {"VEO3", "SORA", "KLING", "WAN"}

(* active rows of the providers table *)
ProviderRows == {"VEO3", "WAN", "KLING"}

ProgressValues == {40, 100}

(* a prompt is the sequence of the code points of its characters *)
Request(provider, resolution, prompt, image_id) ==
    [provider |-> provider, duration_seconds |-> 5, resolution |-> resolution,
     prompt |-> prompt, image_id |-> image_id]

NoRequest ==
    [provider |-> "none", duration_seconds |-> 0, resolution |-> <<0, 0>>,
     prompt |-> <<>>, image_id |-> "none"]

(* The request shapes of POST /generate that the handler tells apart; the
   prompts are "a b", "a cat" and, blank, a space and a tab *)
Requests ==
    {Request("VEO3", <<640, 360>>, <<97, 32, 98>>, "none"),
     Request("VEO3", <<640, 360>>, <<97, 32, 99, 97, 116>>, "none"),
     Request("VEO3", <<604, 360>>, <<97, 32, 98>>, "none"),
     Request("VEO3", <<1000, 1000>>, <<97, 32, 98>>, "none"),
     Request("VEO3", <<640, 360>>, <<97, 32, 98>>, "img_u1"),
     Request("VEO3", <<640, 360>>, <<97, 32, 98>>, "img_missing"),
     Request("WAN", <<1000, 1000>>, <<97, 32, 98>>, "none"),
     Request("WAN", <<640, 360>>, <<32, 9>>, "none"),
     Request("KLING", <<640, 360>>, <<97, 32, 98>>, "none"),
     Request("SORA", <<640, 360>>, <<97, 32, 98>>, "none"),
     Request("sora", <<640, 360>>, <<97, 32, 98>>, "none")}

----------------------------------------------------------------------------
(* Provider factory *)

(* the registry as the class body of ProviderFactory leaves it *)
providers_at_import ==
    [sora |-> "SoraProvider", veo3 |-> "Veo3Provider", wan |-> "WANProvider",
     SORA2 |-> "SoraProvider", VEO3 |-> "Veo3Provider", WAN |-> "WANProvider"]

env_var_map ==
    [sora |-> "OPENAI_API_KEY", veo3 |-> "GOOGLE_AI_API_KEY", wan |-> "WAN_API_KEY",
     SORA2 |-> "OPENAI_API_KEY", VEO3 |-> "GOOGLE_AI_API_KEY", WAN |-> "WAN_API_KEY"]

(* _get_api_key_for_provider: the value of the provider's environment
   variable, here the name of a variable that is set, or None *)
get_api_key_for_provider(provider_type, e) ==
    IF provider_type \in DOMAIN env_var_map /\ env_var_map[provider_type] \in e.api_keys
    THEN env_var_map[provider_type]
    ELSE "none"

(* the classes of the provider layer, whose constructors take api_key *)
ProviderClasses == {"SoraProvider", "Veo3Provider", "WANProvider"}

(* what provider_class(api_key=..., api_url=...) gives: an object of the
   class, or the TypeError of a constructor without these parameters *)
Construct(provider_class) ==
    IF provider_class \in ProviderClasses THEN provider_class ELSE "TypeError"

create_provider_key_first(provider_type, api_key, e) ==
    IF api_key = "none" /\ get_api_key_for_provider(provider_type, e) = "none"
    THEN "RuntimeError"
    ELSE IF provider_type \notin DOMAIN ProviderFactory_providers
    THEN "ValueError"
    ELSE Construct(ProviderFactory_providers[provider_type])

(* create_provider(provider_type, api_key): the provider class constructed,
   or the exception raised; api_key is "none" where the caller passes none *)
create_provider(provider_type, api_key, e) ==
    IF provider_type \notin DOMAIN ProviderFactory_providers
    THEN "ValueError"
    ELSE IF api_key = "none" /\ get_api_key_for_provider(provider_type, e) = "none"
    THEN "RuntimeError"
    ELSE Construct(ProviderFactory_providers[provider_type])

(* The service passes no api_key.  Every RuntimeError of create_provider
   carries "API key not configured", so the mock provider stands in for it;
   a TypeError of the constructor is not caught. *)
get_provider_instance(provider_type, e) ==
    LET made == create_provider(provider_type, "none", e) IN
    IF made = "ValueError" THEN "HTTPException400"
    ELSE IF made = "RuntimeError" THEN "MockProvider"
    ELSE made

----------------------------------------------------------------------------
(* Provider capabilities, validation and pricing *)

get_capabilities(provider) ==
    CASE provider = "Veo3Provider" ->
           [max_duration_seconds |-> 60, max_resolution |-> <<1920, 1080>>,
            supports_image_input |-> TRUE, cost_per_second_milli |-> 20,
            image_cost_multiplier10 |-> 15, max_prompt |-> 2000]
      [] provider = "WANProvider" ->
           [max_duration_seconds |-> 30, max_resolution |-> <<1920, 1080>>,
            supports_image_input |-> TRUE, cost_per_second_milli |-> 15,
            image_cost_multiplier10 |-> 12, max_prompt |-> 1000]
      [] OTHER ->
           [max_duration_seconds |-> 20, max_resolution |-> <<1792, 1792>>,
            supports_image_input |-> TRUE, cost_per_second_milli |-> 50,
            image_cost_multiplier10 |-> 18, max_prompt |-> 1000]

(* the code points str.strip() removes, those for which str.isspace() holds *)
Whitespace ==
    {9, 10, 11, 12, 13, 28, 29, 30, 31, 32, 133, 160, 5760, 8232, 8233, 8239,
     8287, 12288} \cup (8192..8202)

RECURSIVE lstrip(_)
lstrip(s) == IF s # <<>> /\ Head(s) \in Whitespace THEN lstrip(Tail(s)) ELSE s

RECURSIVE rstrip(_)
rstrip(s) ==
    IF s # <<>> /\ s[Len(s)] \in Whitespace THEN rstrip(SubSeq(s, 1, Len(s) - 1)) ELSE s

strip(s) == rstrip(lstrip(s))

Abs(x) == IF x < 0 THEN -x ELSE x

(* abs(width / height - a / b) < tolerance is computed on binary floats.  Where
   the exact difference equals the tolerance, the float difference falls on
   one side of the float tolerance; these are the (a, b, tolerance in
   thousandths, ratio below a / b) whose float difference falls below it, for
   heights 1..8192.  Off that boundary the float and the exact comparison
   agree. *)
FloatAspectBoundaryAccepted ==
    {<<16, 9, 100, TRUE>>, <<9, 16, 100, TRUE>>, <<9, 16, 100, FALSE>>,
     <<16, 9, 150, TRUE>>}

(* abs(width / height - a / b) < tol1000 / 1000, as the floats decide it *)
AspectNear(width, height, a, b, tol1000) ==
    LET d == 1000 * (width * b - a * height)
        limit == tol1000 * height * b
    IN  \/ Abs(d) < limit
        \/ Abs(d) = limit /\ <<a, b, tol1000, d < 0>> \in FloatAspectBoundaryAccepted

(* "ok", or the message of the ValueError raised *)
Veo3Provider_validate_request(r) ==
    LET c == get_capabilities("Veo3Provider")
        w == r.resolution[1]
        h == r.resolution[2]
    IN  IF r.duration_seconds > c.max_duration_seconds
        THEN "Duration exceeds maximum for Veo 3"
        ELSE IF r.duration_seconds <= 0 THEN "Duration must be positive"
        ELSE IF w > c.max_resolution[1] \/ h > c.max_resolution[2]
        THEN "Resolution exceeds maximum for Veo 3"
        ELSE IF ~(AspectNear(w, h, 16, 9, 100) \/ AspectNear(w, h, 9, 16, 100))
        THEN "Veo 3 only supports 16:9 and 9:16 aspect ratios"
        ELSE IF Len(strip(r.prompt)) = 0 THEN "Prompt cannot be empty"
        ELSE IF Len(r.prompt) > c.max_prompt
        THEN "Prompt too long (max 2000 characters)"
        ELSE "ok"

WANProvider_validate_request(r) ==
    LET c == get_capabilities("WANProvider")
        w == r.resolution[1]
        h == r.resolution[2]
    IN  IF r.duration_seconds > c.max_duration_seconds
        THEN "Duration exceeds maximum for WAN AI"
        ELSE IF r.duration_seconds <= 0 THEN "Duration must be positive"
        ELSE IF w > c.max_resolution[1] \/ h > c.max_resolution[2]
        THEN "Resolution exceeds maximum for WAN AI"
        ELSE IF Len(strip(r.prompt)) = 0 THEN "Prompt cannot be empty"
        ELSE IF Len(r.prompt) > c.max_prompt
        THEN "Prompt too long (max 1000 characters)"
        ELSE "ok"

(* SoraProvider.validate_request compares the aspect ratio and does not
   compare the resolution with max_resolution *)
SoraProvider_validate_request(r) ==
    LET c == get_capabilities("SoraProvider")
        w == r.resolution[1]
        h == r.resolution[2]
    IN  IF r.duration_seconds > c.max_duration_seconds
        THEN "Duration exceeds maximum for Sora"
        ELSE IF r.duration_seconds <= 0 THEN "Duration must be positive"
        ELSE IF w <= 0 \/ h <= 0 THEN "Resolution must be positive"
        ELSE IF ~(AspectNear(w, h, 16, 9, 150) \/ AspectNear(w, h, 9, 16, 150))
        THEN "Aspect ratio not supported by Sora (expected ~16:9 or ~9:16)"
        ELSE IF Len(strip(r.prompt)) = 0 THEN "Prompt cannot be empty"
        ELSE IF Len(r.prompt) > c.max_prompt
        THEN "Prompt too long (max 1000 characters)"
        ELSE "ok"

(* MockProvider.validate_request accepts every request *)
validate_request(provider, r) ==
    CASE provider = "Veo3Provider" -> Veo3Provider_validate_request(r)
      [] provider = "WANProvider" -> WANProvider_validate_request(r)
      [] provider = "SoraProvider" -> SoraProvider_validate_request(r)
      [] OTHER -> "ok"

get_resolution_multiplier_swapped(width, height) ==
    LET total_pixels == width * height IN
    IF total_pixels <= 720 * 480 THEN 10
    ELSE IF total_pixels <= 1280 * 720 THEN 15
    ELSE IF total_pixels <= 1920 * 1080 THEN 20
    ELSE IF total_pixels <= 3840 * 2160 THEN 40
    ELSE 30

(* resolution multiplier, in tenths *)
get_resolution_multiplier(width, height) ==
    LET total_pixels == width * height IN
    IF total_pixels <= 720 * 480 THEN 10
    ELSE IF total_pixels <= 1280 * 720 THEN 15
    ELSE IF total_pixels <= 1920 * 1080 THEN 20
    ELSE IF total_pixels <= 3840 * 2160 THEN 30
    ELSE 40

(* round(base_cost, 2) works on a binary float: an exact half cent goes up or
   down with the float error of the products before it.  These are the
   (provider, duration, image, resolution multiplier) whose half cent goes up,
   for durations 1..20. *)
FloatTieRoundsUp ==
    {<<"Veo3Provider", 3, TRUE, 15>>, <<"Veo3Provider", 5, TRUE, 15>>,
     <<"Veo3Provider", 7, TRUE, 15>>, <<"Veo3Provider", 9, TRUE, 15>>,
     <<"Veo3Provider", 17, TRUE, 15>>, <<"Veo3Provider", 19, TRUE, 15>>,
     <<"WANProvider", 3, FALSE, 30>>, <<"WANProvider", 5, TRUE, 15>>,
     <<"WANProvider", 6, FALSE, 15>>, <<"WANProvider", 7, FALSE, 30>>,
     <<"WANProvider", 9, FALSE, 10>>, <<"WANProvider", 9, FALSE, 30>>,
     <<"WANProvider", 13, FALSE, 10>>, <<"WANProvider", 14, FALSE, 15>>,
     <<"WANProvider", 17, FALSE, 10>>, <<"WANProvider", 17, FALSE, 30>>,
     <<"WANProvider", 18, FALSE, 15>>, <<"SoraProvider", 1, FALSE, 15>>,
     <<"SoraProvider", 1, TRUE, 15>>, <<"SoraProvider", 3, FALSE, 15>>,
     <<"SoraProvider", 3, TRUE, 15>>, <<"SoraProvider", 5, FALSE, 15>>,
     <<"SoraProvider", 5, TRUE, 15>>, <<"SoraProvider", 7, FALSE, 15>>,
     <<"SoraProvider", 7, TRUE, 15>>, <<"SoraProvider", 9, FALSE, 15>>,
     <<"SoraProvider", 9, TRUE, 15>>, <<"SoraProvider", 11, FALSE, 15>>,
     <<"SoraProvider", 11, TRUE, 15>>, <<"SoraProvider", 13, FALSE, 15>>,
     <<"SoraProvider", 13, TRUE, 15>>, <<"SoraProvider", 15, TRUE, 15>>,
     <<"SoraProvider", 17, FALSE, 15>>, <<"SoraProvider", 17, TRUE, 15>>,
     <<"SoraProvider", 19, FALSE, 15>>, <<"SoraProvider", 19, TRUE, 15>>}

(* BaseVideoProvider.calculate_cost, in hundredths of a credit.  The product
   is kept exact in units of 10^-5 credit and rounded at the end. *)
BaseVideoProvider_calculate_cost(provider, r, has_image_url) ==
    LET c == get_capabilities(provider)
        image10 == IF has_image_url /\ c.supports_image_input
                   THEN c.image_cost_multiplier10 ELSE 10
        res10 == get_resolution_multiplier(r.resolution[1], r.resolution[2])
        exact == r.duration_seconds * c.cost_per_second_milli * image10 * res10
        q == exact \div 1000
        rest == exact % 1000
    IN  IF rest > 500 THEN q + 1
        ELSE IF rest < 500 THEN q
        ELSE IF <<provider, r.duration_seconds,
                  has_image_url /\ c.supports_image_input, res10>>
                \in FloatTieRoundsUp
             THEN q + 1 ELSE q

(* MockProvider.calculate_cost: duration_seconds * 0.01, not rounded *)
MockProvider_calculate_cost(r) == r.duration_seconds

calculate_cost(provider, r, has_image_url) ==
    IF provider = "MockProvider" THEN MockProvider_calculate_cost(r)
    ELSE BaseVideoProvider_calculate_cost(provider, r, has_image_url)

----------------------------------------------------------------------------
(* Tables *)

NoVideo ==
    [present |-> FALSE, user_id |-> "none", provider |-> "none",
     duration_seconds |-> 0, status |-> "none", progress_percentage |-> 0,
     error_message |-> "none", provider_job_id |-> "none", s3_key |-> "none",
     file_size |-> 0, actual_duration |-> 0, credits_cost |-> 0,
     credits_refunded |-> 0, started_at |-> FALSE, completed_at |-> FALSE]

(* generation_request is the request the handler passed to add_task *)
NoTask == [pc |-> "none", attempt |-> 0, generation_request |-> NoRequest]

NoHandler ==
    [pc |-> "idle", user |-> "none", request |-> NoRequest,
     seen_balance |-> 0, credits_cost |-> 0]

NoCall == [fn |-> "none"]

NoResponse ==
    [op |-> "none", code |-> 0, detail |-> "none", id |-> 0, credits_cost |-> 0,
     videos |-> {}]

Init ==
    /\ env \in Environments
    /\ credits_balance = InitialBalance
    /\ videos = [j \in VideoIds |-> NoVideo]
    /\ transactions = <<>>
    /\ tasks = [j \in VideoIds |-> NoTask]
    /\ handlers = [w \in Workers |-> NoHandler]
    /\ response = NoResponse
    /\ call = NoCall
    /\ instances = <<>>
    /\ ProviderFactory_providers = providers_at_import

----------------------------------------------------------------------------
(* POST /generate *)

(* videos: the ids in the body of a listing *)
Reply(op, code, detail, id, cost) ==
    [op |-> op, code |-> code, detail |-> detail, id |-> id, credits_cost |-> cost,
     videos |-> {}]

ImageFound(u, image_id) ==
    image_id \in DOMAIN Images /\ Images[image_id] = u

HasCredits_always(balance, cost) == TRUE

(* Balance check of the handler, on the balance its session loaded *)
HasCredits(balance, cost) == ~(balance < cost)

ValueErrorReply_generic(reason) == Reply("generate", 400, "Invalid request", 0, 0)

(* except ValueError: the message of the exception is the detail of the 400 *)
ValueErrorReply(reason) == Reply("generate", 400, reason, 0, 0)

(* What generate_video decides for user u and request r when the user row it
   loaded holds `balance`: the reply, and for code 200 the cost to debit. *)
Admission(u, r, e, balance) ==
    LET provider == get_provider_instance(r.provider, e)
        reason == validate_request(provider, r)
        cost == calculate_cost(provider, r, FALSE)
    IN  IF r.provider \notin ProviderType
        THEN Reply("generate", 500, "Internal Server Error", 0, 0)
        ELSE IF r.provider \notin ProviderRows
        THEN Reply("generate", 400, "Provider not available", 0, 0)
        ELSE IF provider = "HTTPException400"
        THEN Reply("generate", 500,
                   "Provider validation failed: 400: Provider error: Unsupported provider", 0, 0)
        ELSE IF provider = "TypeError"
        THEN Reply("generate", 500,
                   "Provider validation failed: MockProvider.__init__() got an unexpected keyword argument 'api_key'", 0, 0)
        ELSE IF r.image_id # "none" /\ ~ImageFound(u, r.image_id)
        THEN Reply("generate", 500,
                   "Provider validation failed: 404: Image not found", 0, 0)
        ELSE IF reason # "ok"
        THEN ValueErrorReply(reason)
        ELSE IF ~HasCredits(balance, cost)
        THEN Reply("generate", 402, "Insufficient credits", 0, 0)
        ELSE Reply("generate", 200, "pending", 0, cost)

Allocated == {j \in VideoIds : tasks[j].pc # "none"}

FreeIds == VideoIds \ Allocated

NewVideoId == CHOOSE j \in FreeIds : \A k \in FreeIds : j <= k

NewVideo(u, provider, duration_seconds, cost) ==
    [NoVideo EXCEPT !.present = TRUE, !.user_id = u, !.provider = provider,
                    !.duration_seconds = duration_seconds, !.status = "PENDING",
                    !.credits_cost = cost]

DebitedBalance_twice(balance, cost) == balance - 2 * cost

(* The balance written by the debit: the loaded balance minus the cost *)
DebitedBalance(balance, cost) == balance - cost

(* Lines 330-358: debit, insert the video, commit, schedule the task.  The
   UPDATE writes the value computed from the balance the session loaded. *)
CommitAdmission(u, r, balance, cost) ==
    LET id == NewVideoId IN
    /\ credits_balance' = [credits_balance EXCEPT ![u] = DebitedBalance(balance, cost)]
    /\ videos' = [videos EXCEPT ![id] = NewVideo(u, r.provider, r.duration_seconds, cost)]
    /\ tasks' = [tasks EXCEPT ![id] =
                    [pc |-> "queued", attempt |-> 0, generation_request |-> r]]
    /\ response' = Reply("generate", 200, "pending", id, cost)
    /\ UNCHANGED <<env, transactions, call, instances, ProviderFactory_providers>>

(* db.commit() of line 350 raises: the one transaction that holds the UPDATE
   of the balance and the INSERT of the video is rolled back, and the
   exception leaves the handler as a 500. *)
CommitFails(u, balance, cost) ==
    /\ response' = Reply("generate", 500, "Internal Server Error", 0, 0)
    /\ UNCHANGED <<env, credits_balance, videos, transactions, tasks, call, instances,
                    ProviderFactory_providers>>

Reject_debited(u, a) ==
    /\ response' = a
    /\ credits_balance' = [credits_balance EXCEPT ![u] = @ - 1]
    /\ UNCHANGED <<env, videos, transactions, tasks, call, instances, ProviderFactory_providers>>

(* The handler raises HTTPException before it has written anything. *)
Reject(u, a) ==
    /\ response' = a
    /\ UNCHANGED <<env, credits_balance, videos, transactions, tasks,
                    call, instances, ProviderFactory_providers>>

(* One service process: the handler runs from its first line to its return
   without yielding. *)
generate_video(u, r) ==
    LET a == Admission(u, r, env, credits_balance[u]) IN
    /\ \A w \in Workers : handlers[w].pc = "idle"
    /\ IF a.code = 200
       THEN /\ \/ /\ Cardinality(Allocated) < MaxJobs
                  /\ CommitAdmission(u, r, credits_balance[u], a.credits_cost)
               \/ CommitFails(u, credits_balance[u], a.credits_cost)
            /\ UNCHANGED handlers
       ELSE Reject(u, a) /\ UNCHANGED handlers

(* Several service processes on one database: the handler of process w has
   loaded the user row and passed the balance check ... *)
generate_video_begin(w, u, r) ==
    LET a == Admission(u, r, env, credits_balance[u]) IN
    /\ handlers[w].pc = "idle"
    /\ IF a.code = 200
       THEN /\ Cardinality(Allocated)
                 + Cardinality({x \in Workers : handlers[x].pc = "checked"})
                 < MaxAdmissions
            /\ handlers' = [handlers EXCEPT ![w] =
                   [pc |-> "checked", user |-> u, request |-> r,
                    seen_balance |-> credits_balance[u],
                    credits_cost |-> a.credits_cost]]
            /\ response' = NoResponse
            /\ UNCHANGED <<env, credits_balance, videos, transactions, tasks,
                    call, instances, ProviderFactory_providers>>
       ELSE Reject(u, a) /\ UNCHANGED handlers

(* ... and now writes the debit and the video row and commits. *)
generate_video_commit(w) ==
    LET h == handlers[w] IN
    /\ h.pc = "checked"
    /\ \/ CommitAdmission(h.user, h.request, h.seen_balance, h.credits_cost)
       \/ CommitFails(h.user, h.seen_balance, h.credits_cost)
    /\ handlers' = [handlers EXCEPT ![w] = NoHandler]

----------------------------------------------------------------------------
(* DELETE /{video_id} *)

Owns_any(u, j) == videos[j].present

(* the row that filter(and_(Video.id == video_id, Video.user_id == user_id))
   finds *)
Owns(u, j) == videos[j].present /\ videos[j].user_id = u

delete_video(u, j) ==
    /\ \A w \in Workers : handlers[w].pc = "idle"
    /\ IF Owns(u, j)
       THEN /\ videos' = [videos EXCEPT ![j] = NoVideo]
            /\ response' = Reply("delete", 200, "Video deleted successfully", j, 0)
       ELSE /\ response' = Reply("delete", 404, "Video not found", 0, 0)
            /\ UNCHANGED videos
    /\ UNCHANGED <<env, credits_balance, transactions, tasks, handlers, call, instances,
                    ProviderFactory_providers>>

----------------------------------------------------------------------------
(* What the providers answer *)

StatusReply(status, progress, error) ==
    [status |-> status, progress_percentage |-> progress, error_message |-> error]

(* what the provider's HTTP API answers to the submission *)
HttpOutcomes == {"200", "400", "429", "500", "timeout"}

Raised(kind, text) == [kind |-> kind, text |-> text]

(* what generate_content of the Google AI SDK does in
   Veo3Provider.generate_video *)
SdkOutcomes == {"returned", "raised"}

(* generate_video of WANProvider and SoraProvider after validate_request: the
   ProviderQuotaExceeded raised for a 429 inside the try block is caught by
   its last clause, except Exception, and raised again as
   ProviderError("Unexpected error: ..."); every HTTPStatusError becomes a
   ProviderError. *)
HttpxGenerate(name, http) ==
    CASE http = "200" -> Raised("ok", "none")
      [] http = "429" ->
           Raised("ProviderError",
                  IF name = "wan"
                  THEN "[wan] Unexpected error: [wan] Rate limit or quota exceeded"
                  ELSE "[sora] Unexpected error: [sora] Rate limit or quota exceeded")
      [] http = "timeout" ->
           Raised("ProviderTimeout",
                  IF name = "wan" THEN "[wan] Request timed out"
                  ELSE "[sora] Request timed out")
      [] http = "400" ->
           Raised("ProviderError",
                  IF name = "wan" THEN "[wan] Invalid request: HTTP 400 - No response body"
                  ELSE "[sora] Unknown error")
      [] OTHER ->
           Raised("ProviderError",
                  IF name = "wan" THEN "[wan] WAN AI service temporarily unavailable"
                  ELSE "[sora] Sora service temporarily unavailable (5xx)")

(* generate_video of Veo3Provider without VEO3_USE_MOCK, after
   validate_request.  A prompt of fewer than 5 characters after strip() is
   refused before any call.  A request with an image returns without a call.
   Otherwise the SDK is called, and when it raises, the REST endpoint is
   posted to with requests.post; the body of its answer is taken empty.
   Every exception of the inner try block, the refusal of the prompt
   included, is raised as ProviderError("Google AI SDK error: ...") and
   wrapped once more by the outer except Exception. *)
Veo3Generate(r, has_image_url, sdk, http) ==
    IF Len(strip(r.prompt)) < 5
    THEN Raised("ProviderError",
                "[veo3] Unexpected error: [veo3] Google AI SDK error: [veo3] Prompt too short for video generation")
    ELSE IF has_image_url THEN Raised("ok", "none")
    ELSE IF sdk = "returned" THEN Raised("ok", "none")
    ELSE CASE http = "200" -> Raised("ok", "none")
           [] http = "400" ->
                Raised("ProviderError",
                       "[veo3] Unexpected error: [veo3] Google AI SDK error: [veo3] REST API Error: 400 - ")
           [] http = "429" ->
                Raised("ProviderError",
                       "[veo3] Unexpected error: [veo3] Google AI SDK error: [veo3] REST API Error: 429 - ")
           [] http = "500" ->
                Raised("ProviderError",
                       "[veo3] Unexpected error: [veo3] Google AI SDK error: [veo3] REST API Error: 500 - ")
           [] OTHER ->
                Raised("ProviderError",
                       "[veo3] Unexpected error: [veo3] Google AI SDK error: HTTPSConnectionPool(host='generativelanguage.googleapis.com', port=443): Read timed out. (read timeout=30)")

(* generate_video of the provider on request r, on one behaviour of the SDK
   and one answer of the HTTP API: ok, or the exception raised with its
   str().  WANProvider, SoraProvider and Veo3Provider call validate_request
   first, whose ValueError is not caught; MockProvider does not. *)
SubmitOutcome(provider, e, r, has_image_url, sdk, http) ==
    LET reason == validate_request(provider, r) IN
    IF reason # "ok" THEN Raised("ValueError", reason)
    ELSE CASE provider = "MockProvider" -> Raised("ok", "none")
           [] provider = "Veo3Provider" ->
                IF e.veo3_use_mock THEN Raised("ok", "none")
                ELSE Veo3Generate(r, has_image_url, sdk, http)
           [] provider = "WANProvider" -> HttpxGenerate("wan", http)
           [] OTHER -> HttpxGenerate("sora", http)

provider_generate_video(provider, e, r, has_image_url) ==
    {SubmitOutcome(provider, e, r, has_image_url, sdk, http) :
        sdk \in SdkOutcomes, http \in HttpOutcomes}

(* str(e) of the ProviderError download_video raises *)
ErrorText(provider, exception) ==
    CASE provider = "Veo3Provider" -> "[veo3] Failed to download video"
      [] provider = "WANProvider" -> "[wan] Failed to download video"
      [] OTHER -> "[sora] Failed to download video"

(* get_status of the provider *)
provider_get_status(provider, e) ==
    CASE provider = "MockProvider" -> {StatusReply("completed", 100, "none")}
      [] provider = "Veo3Provider" ->
           IF e.veo3_use_mock
           THEN {StatusReply("completed", 100, "none")}
           ELSE {StatusReply("processing", 45, "none")}
      [] OTHER ->
           {StatusReply(s, p, "none") :
               s \in {"pending", "processing", "completed", "failed"},
               p \in ProgressValues}
           \cup {StatusReply("failed", 0, "connection refused")}

Bytes(n) == [kind |-> "bytes", len |-> n]

(* download_video of the provider: bytes, None, or ProviderError raised *)
provider_download_video(provider, e) ==
    CASE provider = "MockProvider" -> {Bytes(18)}
      [] provider = "Veo3Provider" ->
           IF e.veo3_use_mock THEN {Bytes(60)} ELSE {[kind |-> "None", len |-> 0]}
      [] OTHER ->
           {Bytes(2048), Bytes(0), [kind |-> "None", len |-> 0],
            [kind |-> "ProviderError", len |-> 0]}

----------------------------------------------------------------------------
(* process_video_generation, the background task of video j *)

TaskProvider(j) == get_provider_instance(tasks[j].generation_request.provider, env)

Finish_resubmits(j) == tasks' = [tasks EXCEPT ![j].pc = "generate"]

Finish_polls_on(j) == tasks' = [tasks EXCEPT ![j].pc = "poll", ![j].attempt = 0]

Finish(j) == tasks' = [tasks EXCEPT ![j] = [NoTask EXCEPT !.pc = "done"]]

MarkFailed_requeued(j, message) ==
    IF videos[j].present
    THEN videos' = [videos EXCEPT ![j].status = "PENDING", ![j].error_message = message]
    ELSE UNCHANGED videos

MarkFailed_silent(j, message) ==
    IF videos[j].present
    THEN videos' = [videos EXCEPT ![j].status = "FAILED"]
    ELSE UNCHANGED videos

(* A commit on a row that DELETE has removed raises out of the inner
   handlers; the outer handler finds no row and writes nothing. *)
MarkFailed(j, message) ==
    IF videos[j].present
    THEN videos' = [videos EXCEPT ![j].status = "FAILED", ![j].error_message = message]
    ELSE UNCHANGED videos

TaskQuiet == /\ response' = NoResponse
             /\ UNCHANGED <<env, credits_balance, transactions, handlers, call, instances,
                             ProviderFactory_providers>>

(* lines 129-153 *)
TaskStart(j) ==
    /\ tasks[j].pc = "queued"
    /\ IF ~videos[j].present
       THEN Finish(j) /\ UNCHANGED videos
       ELSE IF TaskProvider(j) = "HTTPException400"
       THEN Finish(j) /\ MarkFailed(j, "Internal error: 400: Provider error: Unsupported provider")
       ELSE IF TaskProvider(j) = "TypeError"
       THEN Finish(j) /\ MarkFailed(j, "Internal error: MockProvider.__init__() got an unexpected keyword argument 'api_key'")
       ELSE /\ videos' = [videos EXCEPT ![j].status = "PROCESSING",
                                        ![j].started_at = TRUE]
            /\ tasks' = [tasks EXCEPT ![j].pc = "generate"]
    /\ TaskQuiet

(* response.generation_id of generate_video, the id the loop hands to
   get_status and download_video *)
GenerationId(provider) ==
    CASE provider = "SoraProvider" -> "sora_id"
      [] provider = "WANProvider" -> "wan_id"
      [] provider = "Veo3Provider" -> "veo3_id"
      [] OTHER -> "uuid4"

(* metadata.get("sora_job_id") of the response of generate_video *)
SoraJobId(provider) == IF provider = "SoraProvider" THEN "sora_id" ELSE "none"

(* f"Internal error: {str(e)}" of the outer handler, lines 215-221, for the
   ValueError of validate_request *)
InternalError(reason) ==
    CASE reason = "Duration must be positive" ->
           "Internal error: Duration must be positive"
      [] reason = "Resolution must be positive" ->
           "Internal error: Resolution must be positive"
      [] reason = "Prompt cannot be empty" ->
           "Internal error: Prompt cannot be empty"
      [] reason = "Veo 3 only supports 16:9 and 9:16 aspect ratios" ->
           "Internal error: Veo 3 only supports 16:9 and 9:16 aspect ratios"
      [] reason = "Aspect ratio not supported by Sora (expected ~16:9 or ~9:16)" ->
           "Internal error: Aspect ratio not supported by Sora (expected ~16:9 or ~9:16)"
      [] reason = "Prompt too long (max 1000 characters)" ->
           "Internal error: Prompt too long (max 1000 characters)"
      [] reason = "Prompt too long (max 2000 characters)" ->
           "Internal error: Prompt too long (max 2000 characters)"
      [] reason = "Duration exceeds maximum for Veo 3" ->
           "Internal error: Duration exceeds maximum for Veo 3"
      [] reason = "Duration exceeds maximum for WAN AI" ->
           "Internal error: Duration exceeds maximum for WAN AI"
      [] reason = "Duration exceeds maximum for Sora" ->
           "Internal error: Duration exceeds maximum for Sora"
      [] reason = "Resolution exceeds maximum for Veo 3" ->
           "Internal error: Resolution exceeds maximum for Veo 3"
      [] OTHER -> "Internal error: Resolution exceeds maximum for WAN AI"

(* lines 155-164 and 210-221: generate_video has returned or raised.  The
   handler passed image_url = None. *)
TaskGenerate(j) ==
    /\ tasks[j].pc = "generate"
    /\ \E out \in provider_generate_video(TaskProvider(j), env,
                                           tasks[j].generation_request, FALSE) :
         IF out.kind = "ok"
         THEN IF videos[j].present
              THEN /\ videos' = [videos EXCEPT
                                   ![j].provider_job_id = SoraJobId(TaskProvider(j))]
                   /\ tasks' = [tasks EXCEPT ![j].pc = "poll", ![j].attempt = 0]
              ELSE Finish(j) /\ UNCHANGED videos
         ELSE IF out.kind = "ValueError"
         THEN Finish(j) /\ MarkFailed(j, InternalError(out.text))
         ELSE Finish(j) /\ MarkFailed(j, out.text)
    /\ TaskQuiet

MayPoll_one_more(attempt) == attempt <= max_attempts

(* The loop condition of line 166 *)
MayPoll(attempt) == attempt < max_attempts

NextAttempt_same(attempt) == attempt

(* attempt += 1 *)
NextAttempt(attempt) == attempt + 1

(* await provider.get_status(...) of line 170 yields to the event loop in
   WANProvider and SoraProvider, which await their HTTP client;
   MockProvider.get_status and Veo3Provider.get_status return without
   yielding. *)
GetStatusYields(provider) == provider \in {"WANProvider", "SoraProvider"}

(* lines 173-208: get_status has returned st on the attempt-th turn of the
   loop; up to the next sleep, to download_video, or to the end of the task *)
StatusArrived(j, st, attempt) ==
    IF ~videos[j].present
    THEN Finish(j) /\ UNCHANGED videos
    ELSE IF st.status = "completed"
    THEN /\ videos' = [videos EXCEPT
                         ![j].progress_percentage = st.progress_percentage]
         /\ tasks' = [tasks EXCEPT ![j].pc = "download", ![j].attempt = 0]
    ELSE IF st.status = "failed"
    THEN /\ videos' = [videos EXCEPT
                         ![j].progress_percentage = st.progress_percentage,
                         ![j].status = "FAILED",
                         ![j].error_message =
                             IF st.error_message # "none" THEN st.error_message
                             ELSE "Video generation failed"]
         /\ Finish(j)
    ELSE IF MayPoll(attempt)
    THEN /\ videos' = [videos EXCEPT
                         ![j].progress_percentage = st.progress_percentage]
         /\ tasks' = [tasks EXCEPT ![j].pc = "poll", ![j].attempt = attempt]
    ELSE /\ videos' = [videos EXCEPT
                         ![j].progress_percentage = st.progress_percentage,
                         ![j].status = "FAILED",
                         ![j].error_message = "Video generation timed out"]
         /\ Finish(j)

(* lines 166-170: the sleep is over, attempt += 1, get_status is called.
   Where get_status yields the task waits for its answer; where it does not,
   the task runs on through lines 173-208. *)
TaskPoll(j) ==
    /\ tasks[j].pc = "poll"
    /\ MayPoll(tasks[j].attempt)
    /\ IF GetStatusYields(TaskProvider(j))
       THEN /\ tasks' = [tasks EXCEPT ![j].pc = "status",
                                      ![j].attempt = NextAttempt(tasks[j].attempt)]
            /\ UNCHANGED videos
       ELSE \E st \in provider_get_status(TaskProvider(j), env) :
              StatusArrived(j, st, NextAttempt(tasks[j].attempt))
    /\ TaskQuiet

(* lines 170-208: the answer to get_status arrives *)
TaskStatus(j) ==
    /\ tasks[j].pc = "status"
    /\ \E st \in provider_get_status(TaskProvider(j), env) :
         StatusArrived(j, st, tasks[j].attempt)
    /\ TaskQuiet

Usable_any(content) == content.kind = "bytes"

(* if video_content: bytes that are not empty *)
Usable(content) == content.kind = "bytes" /\ content.len > 0

Completed_refunded(v, len) ==
    [v EXCEPT !.status = "COMPLETED", !.completed_at = TRUE, !.file_size = len,
              !.actual_duration = v.duration_seconds,
              !.credits_refunded = v.credits_cost]

Completed_recosted(v, len) ==
    [v EXCEPT !.status = "COMPLETED", !.completed_at = TRUE, !.file_size = len,
              !.actual_duration = v.duration_seconds,
              !.credits_cost = v.duration_seconds]

Completed_unstamped(v, len) ==
    [v EXCEPT !.status = "COMPLETED", !.file_size = len,
              !.actual_duration = v.duration_seconds]

(* lines 182-185: the row of a video whose content has arrived *)
Completed(v, len) ==
    [v EXCEPT !.status = "COMPLETED", !.completed_at = TRUE, !.file_size = len,
              !.actual_duration = v.duration_seconds]

(* lines 178-196 and 210-213: download_video has returned or raised *)
TaskDownload(j) ==
    /\ tasks[j].pc = "download"
    /\ \E content \in provider_download_video(TaskProvider(j), env) :
         /\ Finish(j)
         /\ IF content.kind = "ProviderError"
            THEN MarkFailed(j, ErrorText(TaskProvider(j), "DownloadError"))
            ELSE IF ~videos[j].present
            THEN UNCHANGED videos
            ELSE IF Usable(content)
            THEN videos' = [videos EXCEPT ![j] = Completed(videos[j], content.len)]
            ELSE MarkFailed(j, "Failed to download generated video")
    /\ TaskQuiet

----------------------------------------------------------------------------
(* GET /{video_id}/status and GET / *)

ReadOnly ==
    UNCHANGED <<env, credits_balance, videos, transactions, tasks, handlers,
                call, instances, ProviderFactory_providers>>

get_video_status(u, j) ==
    /\ \A w \in Workers : handlers[w].pc = "idle"
    /\ response' = IF Owns(u, j)
                   THEN Reply("status", 200, videos[j].status, j, videos[j].credits_cost)
                   ELSE Reply("status", 404, "Video not found", 0, 0)
    /\ ReadOnly

(* first page of the listing without a status filter *)
list_user_videos(u) ==
    /\ \A w \in Workers : handlers[w].pc = "idle"
    /\ response' = [Reply("list", 200, "videos", 0, 0)
                      EXCEPT !.videos = {j \in VideoIds : Owns(u, j)}]
    /\ ReadOnly

----------------------------------------------------------------------------
(* The provider layer, called directly *)

(* provider objects a caller of the factory holds at one time *)
MaxInstances == 2

FactoryEnvVars == {"OPENAI_API_KEY", "GOOGLE_AI_API_KEY", "WAN_API_KEY"}

FactoryEnvironments == [api_keys : SUBSET FactoryEnvVars, veo3_use_mock : {FALSE}]

(* identifiers handed to create_provider *)
Identifiers ==
    {"sora", "Sora", "SORA", "SORA2", "veo3", "Veo3", "VEO3", "wan", "Wan", "WAN",
     "kling"}

EstimateDurations == {1, 5, 9, 20}

(* one resolution in each tier of _get_resolution_multiplier, and the edges
   of the first two tiers *)
EstimateResolutions ==
    {<<640, 360>>, <<720, 480>>, <<721, 480>>, <<1280, 720>>, <<1920, 1080>>,
     <<3840, 2160>>, <<4096, 4096>>}

EstimateRequest(duration, resolution) ==
    [provider |-> "none", duration_seconds |-> duration, resolution |-> resolution,
     prompt |-> <<97>>, image_id |-> "none"]

(* requests handed to generate_video: a prompt of fewer than 5 characters
   once the tab, the line feed and the spaces around "a b" are stripped, and with a prompt of 5 a resolution inside the aspect ratios the providers
   accept, one on the edge of each tolerance, and one outside *)
SubmitRequests ==
    {[EstimateRequest(5, <<640, 360>>) EXCEPT !.prompt = <<9, 97, 32, 98, 10, 32>>]}
    \cup {[EstimateRequest(5, res) EXCEPT !.prompt = <<97, 32, 99, 97, 116>>] :
             res \in {<<640, 360>>, <<604, 360>>, <<586, 360>>, <<1000, 1000>>}}

(* how the SDK and the HTTP API behave on one generate_video: the HTTP answer
   is read only after the SDK has raised *)
SubmitBehaviours ==
    {<<"returned", "200">>}
    \cup {<<"raised", http>> : http \in HttpOutcomes}

(* self.name of a provider class *)
ProviderName(class) ==
    CASE class = "SoraProvider" -> "sora"
      [] class = "Veo3Provider" -> "veo3"
      [] OTHER -> "wan"

(* ProviderFactory.get_available_providers: one entry per key of _providers *)
get_available_providers(e) ==
    [name \in DOMAIN ProviderFactory_providers |->
        IF get_api_key_for_provider(name, e) = "none"
        THEN [available |-> FALSE, error |-> "API key not configured", name |-> name]
        ELSE IF Construct(ProviderFactory_providers[name]) = "TypeError"
        THEN [available |-> FALSE,
              error |-> "MockProvider.__init__() got an unexpected keyword argument 'api_key'",
              name |-> name]
        ELSE [available |-> TRUE,
              capabilities |-> get_capabilities(ProviderFactory_providers[name]),
              name |-> ProviderName(ProviderFactory_providers[name])]]

ProviderCall_debits(c) ==
    /\ call' = c
    /\ credits_balance' = [u \in Users |-> 0]
    /\ UNCHANGED <<env, videos, transactions, tasks, handlers, response>>

(* a call into the provider layer touches no table of the service *)
ProviderCall(c) ==
    /\ call' = c
    /\ UNCHANGED <<env, credits_balance, videos, transactions, tasks, handlers, response>>

(* names and classes handed to register_provider: a new name and one of the
   registry, a class of the provider layer and the mock class of the service *)
RegisterNames == {"kling", "wan"}

RegisterClasses == {"WANProvider", "MockProvider"}

(* api_key handed to create_provider: none, or a key *)
ApiKeys == {"none", "k"}

(* register_provider(name, provider_class): cls._providers[name] = provider_class *)
register_provider(name, provider_class) ==
    /\ ProviderFactory_providers' =
          [n \in DOMAIN ProviderFactory_providers \cup {name} |->
              IF n = name THEN provider_class ELSE ProviderFactory_providers[n]]
    /\ ProviderCall([fn |-> "register_provider", arg |-> name,
                     class |-> provider_class])
    /\ UNCHANGED instances

(* create_provider(provider_type, api_key): a new object on every successful
   call, holding the key passed or else the key of the environment *)
factory_create_provider(provider_type, api_key) ==
    LET made == create_provider(provider_type, api_key, env) IN
    IF made \in ProviderClasses
    THEN /\ Len(instances) < MaxInstances
         /\ instances' = Append(instances,
                [class |-> made,
                 api_key |-> IF api_key # "none" THEN api_key
                             ELSE get_api_key_for_provider(provider_type, env)])
         /\ ProviderCall([fn |-> "create_provider", arg |-> provider_type,
                          api_key |-> api_key,
                          result |-> made, instance |-> Len(instances) + 1])
         /\ UNCHANGED ProviderFactory_providers
    ELSE /\ UNCHANGED <<instances, ProviderFactory_providers>>
         /\ ProviderCall([fn |-> "create_provider", arg |-> provider_type,
                          api_key |-> api_key,
                          result |-> made, instance |-> 0])

(* GET /providers *)
list_providers ==
    /\ ProviderCall([fn |-> "get_available_providers",
                     result |-> get_available_providers(env)])
    /\ UNCHANGED <<instances, ProviderFactory_providers>>

(* provider.calculate_cost(request) on an instance of the class *)
provider_calculate_cost(class, r, has_image_url) ==
    /\ ProviderCall([fn |-> "calculate_cost", class |-> class, request |-> r,
                     has_image_url |-> has_image_url,
                     result |-> calculate_cost(class, r, has_image_url)])
    /\ UNCHANGED <<instances, ProviderFactory_providers>>

(* provider.generate_video(request) when the SDK behaves as sdk and the
   provider's API answers http *)
provider_submit(class, r, has_image_url, sdk, http) ==
    /\ ProviderCall([fn |-> "generate_video", class |-> class, request |-> r,
                     has_image_url |-> has_image_url, sdk |-> sdk, http |-> http,
                     result |-> SubmitOutcome(class, env, r, has_image_url, sdk, http)])
    /\ UNCHANGED <<instances, ProviderFactory_providers>>

(* what the provider's HTTP API answers to a status request: the "status" of
   the JSON body, or "error" for a failed request *)
ApiStatuses == {"pending", "processing", "completed", "failed", "queued", "error"}

StatusResponse(status, video_url, raised) ==
    [status |-> status, video_url |-> video_url, raised |-> raised]

(* WANProvider.get_status: status_map keeps "pending"; video_url is taken
   from the body only for a completed status; every exception is returned as
   FAILED *)
WANProvider_get_status(api, has_video_url) ==
    CASE api = "error" -> StatusResponse("failed", FALSE, "none")
      [] api \in {"pending", "completed", "failed"} ->
           StatusResponse(api, api = "completed" /\ has_video_url, "none")
      [] OTHER -> StatusResponse("processing", FALSE, "none")

(* SoraProvider.get_status: never a video_url; an exception is raised as
   ProviderError *)
SoraProvider_get_status(api) ==
    CASE api = "error" -> StatusResponse("none", FALSE, "ProviderError")
      [] api \in {"completed", "failed"} -> StatusResponse(api, FALSE, "none")
      [] OTHER -> StatusResponse("processing", FALSE, "none")

(* Veo3Provider.get_status makes no request: completed with the sample URL
   under VEO3_USE_MOCK, processing otherwise *)
Veo3Provider_get_status(e) ==
    IF e.veo3_use_mock THEN StatusResponse("completed", TRUE, "none")
    ELSE StatusResponse("processing", FALSE, "none")

get_status(class, e, api, has_video_url) ==
    CASE class = "WANProvider" -> WANProvider_get_status(api, has_video_url)
      [] class = "SoraProvider" -> SoraProvider_get_status(api)
      [] OTHER -> Veo3Provider_get_status(e)

(* provider.get_status(generation_id) when the provider's API answers api *)
provider_poll(class, api, has_video_url) ==
    /\ ProviderCall([fn |-> "get_status", class |-> class, api |-> api,
                     result |-> get_status(class, env, api, has_video_url)])
    /\ UNCHANGED <<instances, ProviderFactory_providers>>

InitProviders ==
    /\ env \in FactoryEnvironments
    /\ credits_balance = InitialBalance
    /\ videos = [j \in VideoIds |-> NoVideo]
    /\ transactions = <<>>
    /\ tasks = [j \in VideoIds |-> NoTask]
    /\ handlers = [w \in Workers |-> NoHandler]
    /\ response = NoResponse
    /\ call = NoCall
    /\ instances = <<>>
    /\ ProviderFactory_providers = providers_at_import

(* a caller of the factory: registration, construction, listing *)
NextFactory ==
    \/ \E name \in RegisterNames, provider_class \in RegisterClasses :
            register_provider(name, provider_class)
    \/ \E provider_type \in Identifiers, api_key \in ApiKeys :
            factory_create_provider(provider_type, api_key)
    \/ list_providers

SpecFactory == InitProviders /\ [][NextFactory]_vars

(* a caller of the provider objects: estimate, submission, poll *)
NextProviders ==
    \/ \E class \in ProviderClasses, d \in EstimateDurations,
          res \in EstimateResolutions, has_image_url \in BOOLEAN :
            provider_calculate_cost(class, EstimateRequest(d, res), has_image_url)
    \/ \E class \in ProviderClasses, r \in SubmitRequests, has_image_url \in BOOLEAN,
          b \in SubmitBehaviours :
            provider_submit(class, r, has_image_url, b[1], b[2])
    \/ \E class \in ProviderClasses, api \in ApiStatuses, has_video_url \in BOOLEAN :
            provider_poll(class, api, has_video_url)

SpecProviders == InitProviders /\ [][NextProviders]_vars

----------------------------------------------------------------------------
(* Specifications *)

Next ==
    \/ \E u \in Users, r \in Requests : generate_video(u, r)
    \/ \E u \in Users, j \in VideoIds : delete_video(u, j)
    \/ \E j \in VideoIds : TaskStart(j)
    \/ \E j \in VideoIds : TaskGenerate(j)
    \/ \E j \in VideoIds : TaskPoll(j)
    \/ \E j \in VideoIds : TaskStatus(j)
    \/ \E j \in VideoIds : TaskDownload(j)

Spec == Init /\ [][Next]_vars

(* The event loop resumes every background task that can take a step. *)
TaskStep(j) ==
    TaskStart(j) \/ TaskGenerate(j) \/ TaskPoll(j) \/ TaskStatus(j) \/ TaskDownload(j)

SpecFair == Init /\ [][Next]_vars /\ \A j \in VideoIds : WF_vars(TaskStep(j))

(* Several service processes on one database take admissions; background
   tasks, which never write credits_balance, are left out. *)
NextWorkers ==
    \/ \E w \in Workers, u \in Users, r \in Requests : generate_video_begin(w, u, r)
    \/ \E w \in Workers : generate_video_commit(w)

SpecWorkers == Init /\ [][NextWorkers]_vars

(* The service with the requests that read the videos of a user *)
NextOwners ==
    \/ Next
    \/ \E u \in Users, j \in VideoIds : get_video_status(u, j)
    \/ \E u \in Users : list_user_videos(u)

SpecOwners == Init /\ [][NextOwners]_vars

----------------------------------------------------------------------------
(* Properties *)

RECURSIVE SumOver(_, _)
SumOver(f, S) ==
    IF S = {} THEN 0
    ELSE LET x == CHOOSE y \in S : TRUE IN f[x] + SumOver(f, S \ {x})

(* sum of credits_cost over the videos rows of user u *)
JobsCost(u) ==
    SumOver([j \in VideoIds |-> videos[j].credits_cost],
            {j \in VideoIds : videos[j].present /\ videos[j].user_id = u})

(* sum of the signed amounts of the transactions rows of user u *)
LedgerSum(u) ==
    SumOver([i \in DOMAIN transactions |-> transactions[i].amount],
            {i \in DOMAIN transactions : transactions[i].user_id = u})

Terminal == {"COMPLETED", "FAILED", "CANCELLED"}

(* the status changes the lifecycle allows *)
Forward ==
    {<<"PENDING", "PROCESSING">>, <<"PENDING", "FAILED">>, <<"PENDING", "CANCELLED">>,
     <<"PROCESSING", "COMPLETED">>, <<"PROCESSING", "FAILED">>,
     <<"PROCESSING", "CANCELLED">>}

Admitted == response.op = "generate" /\ response.code = 200

AdmittedNow == response'.op = "generate" /\ response'.code = 200

(* C1: every video in FAILED carries a full refund: credits_refunded equals
   credits_cost, and with all of a user's videos FAILED the balance is back
   at what it was before them. *)
C1_FailedIsRefunded ==
    /\ \A j \in VideoIds :
         videos[j].present /\ videos[j].status = "FAILED"
            => videos[j].credits_refunded = videos[j].credits_cost
    /\ \A u \in Users :
         (\A j \in Allocated : videos[j].present /\ videos[j].user_id = u
                                  /\ videos[j].status = "FAILED")
            => credits_balance[u] = InitialBalance[u]

(* C2: the balance of every user is the initial balance plus the sum of the
   signed ledger entries recorded for that user. *)
C2_BalanceIsLedgerSum ==
    \A u \in Users : credits_balance[u] = InitialBalance[u] + LedgerSum(u)

(* C3: when admissions of one user interleave, every debit applies to the
   balance the other left (no lost update), and the costs of the videos they
   create add up to no more than the balance the user had before them. *)
C3_NoLostUpdate ==
    \A u \in Users :
        /\ credits_balance[u] = InitialBalance[u] - JobsCost(u)
        /\ JobsCost(u) <= InitialBalance[u]

(* C4: the credit balance of every user is >= 0 in every reachable state,
   interleaved admissions included. *)
C4_BalanceNeverNegative == \A u \in Users : credits_balance[u] >= 0

(* two admissions of one user have interleaved: the second debit was computed
   from the balance loaded before the first *)
C4_Witness ==
    \E u \in Users :
        /\ Cardinality({j \in VideoIds : videos[j].present /\ videos[j].user_id = u}) = 2
        /\ credits_balance[u] > InitialBalance[u] - JobsCost(u)

(* C5: an admission that finds balance < cost answers 402 and changes
   nothing: balance, videos, ledger and scheduled tasks stay as they were;
   an admission that is accepted found cost <= balance. *)
C5_InsufficientCreditsNoSideEffect ==
    [][/\ (response'.op = "generate" /\ response'.code = 402)
            => /\ credits_balance' = credits_balance
               /\ videos' = videos
               /\ transactions' = transactions
               /\ tasks' = tasks
       /\ AdmittedNow
            => response'.credits_cost
                 <= credits_balance[videos'[response'.id].user_id]]_vars

(* a user who was debited before is refused for insufficient credits *)
C5_Witness ==
    /\ response.op = "generate" /\ response.code = 402
    /\ \E u \in Users : credits_balance[u] < InitialBalance[u]

(* the requests of user u that reach validate_request in environment e *)
ReachesValidation(u, r, e) ==
    /\ r.provider \in ProviderRows
    /\ get_provider_instance(r.provider, e) # "HTTPException400"
    /\ r.image_id = "none" \/ ImageFound(u, r.image_id)

(* C6: a step that answers POST /generate with 400 changes neither balance
   nor videos nor ledger nor tasks, and every request the provider's
   validate_request rejects is answered 400 with the validator's message as
   the detail, whatever the balance. *)
C6_ValidationRejectsBeforeDebit ==
    [][(response'.op = "generate" /\ response'.code = 400)
          => /\ UNCHANGED <<credits_balance, videos, transactions, tasks>>
             /\ \A u \in Users, r \in Requests :
                  LET reason == validate_request(get_provider_instance(r.provider, env), r)
                  IN  (ReachesValidation(u, r, env) /\ reason # "ok")
                         => Admission(u, r, env, credits_balance[u])
                              = Reply("generate", 400, reason, 0, 0)]_vars

(* a blank prompt has been refused with the validator's message *)
C6_Witness ==
    /\ response.op = "generate" /\ response.code = 400
    /\ response.detail = "Prompt cannot be empty"

(* C7: an accepted admission debits exactly the cost calculate_cost gives,
   and inserts the video in PENDING with that credits_cost and progress 0;
   a balance of 10.00 and a 5 s 640x360 video at 0.02 per second give a cost
   of 0.10 and a balance of 9.90. *)
C7_AdmissionDebitsEstimatedCost ==
    [][AdmittedNow =>
          LET id == response'.id
              v == videos'[id]
              u == v.user_id
              cost == response'.credits_cost
          IN  /\ ~videos[id].present
              /\ v.present
              /\ v.status = "PENDING"
              /\ v.progress_percentage = 0
              /\ v.credits_cost = cost
              /\ v.credits_refunded = 0
              /\ \E r \in Requests :
                   /\ r.provider = v.provider
                   /\ cost = calculate_cost(get_provider_instance(r.provider, env), r, FALSE)
              /\ credits_balance' = [credits_balance EXCEPT ![u] = @ - cost]
              /\ (/\ credits_balance[u] = 1000
                  /\ get_provider_instance(v.provider, env) = "Veo3Provider")
                   => cost = 10 /\ credits_balance'[u] = 990]_vars

(* the scenario: 10.00 before, 0.10 charged, 9.90 after, video PENDING *)
C7_Witness ==
    /\ Admitted
    /\ response.credits_cost = 10
    /\ credits_balance["u1"] = 990
    /\ videos[response.id].status = "PENDING"
    /\ videos[response.id].user_id = "u1"

(* C8: while a videos row exists its status only moves along
   PENDING -> PROCESSING -> COMPLETED or FAILED (or PENDING -> FAILED, or to
   CANCELLED from PENDING or PROCESSING), and a status of COMPLETED, FAILED
   or CANCELLED never changes. *)
C8_StatusMovesForward ==
    [][\A j \in VideoIds :
          (videos[j].present /\ videos'[j].present)
             => /\ videos'[j].status # videos[j].status
                   => <<videos[j].status, videos'[j].status>> \in Forward
                /\ videos[j].status \in Terminal
                   => videos'[j].status = videos[j].status]_vars

(* a video is COMPLETED, its task has returned, and a later request was served *)
C8_Witness ==
    \E j \in VideoIds :
        /\ videos[j].present /\ videos[j].status = "COMPLETED"
        /\ tasks[j].pc = "done"
        /\ response.op = "generate"

(* C9: every background task that starts returns, and when it has returned
   the video it worked on, if the row still exists, is COMPLETED or FAILED:
   no video stays PENDING or PROCESSING forever. *)
C9_TaskReachesTerminal ==
    \A j \in VideoIds :
        (tasks[j].pc = "queued")
           ~> (/\ tasks[j].pc = "done"
               /\ videos[j].present => videos[j].status \in Terminal)

(* a task has returned after its provider raised, leaving the video FAILED *)
C9_Witness ==
    \E j \in VideoIds :
        /\ tasks[j].pc = "done"
        /\ videos[j].present /\ videos[j].status = "FAILED"
        /\ videos[j].error_message = "[wan] WAN AI service temporarily unavailable"

PollFailures == {"Video generation failed", "connection refused"}

(* the next step of the task of video j takes the answer to its n-th call of
   get_status *)
AnswerTo(j, n) ==
    \/ tasks[j].pc = "status" /\ tasks[j].attempt = n
    \/ /\ tasks[j].pc = "poll" /\ tasks[j].attempt = n - 1
       /\ ~GetStatusYields(TaskProvider(j))

(* C10: get_status is called at most max_attempts = 120 times for one video;
   the 120th call that brings no terminal status marks the video FAILED with
   "Video generation timed out", and no earlier call does. *)
C10_PollLoopBounded ==
    [][\A j \in VideoIds :
          /\ tasks[j].pc = "poll" => tasks[j].attempt < max_attempts
          /\ tasks'[j].pc = "poll" => tasks'[j].attempt < max_attempts
          /\ tasks'[j].pc = "status" => tasks'[j].attempt <= max_attempts
          /\ (/\ AnswerTo(j, max_attempts) /\ tasks'[j].pc = "done"
              /\ videos'[j].present
              /\ videos'[j].error_message \notin PollFailures)
               => /\ videos'[j].status = "FAILED"
                  /\ videos'[j].error_message = "Video generation timed out"
          /\ (/\ videos'[j].error_message = "Video generation timed out"
              /\ videos[j].error_message # "Video generation timed out")
               => AnswerTo(j, max_attempts)]_vars

(* a video has been polled 120 times without a terminal status *)
C10_Witness ==
    \E j \in VideoIds :
        /\ videos[j].present /\ videos[j].status = "FAILED"
        /\ videos[j].error_message = "Video generation timed out"
        /\ tasks[j].pc = "done"

(* rows of the transactions table of the given type that are linked to video j *)
LedgerEntries(j, type) ==
    {i \in DOMAIN transactions :
        transactions[i].video_id = j /\ transactions[i].type = type}

(* C11: while a video is PROCESSING the stored progress_percentage never
   goes down from one poll to the next, whatever the provider reports. *)
C11_ProgressNonDecreasing ==
    [][\A j \in VideoIds :
          (/\ videos[j].present /\ videos'[j].present
           /\ videos[j].status = "PROCESSING" /\ videos'[j].status = "PROCESSING")
             => videos'[j].progress_percentage >= videos[j].progress_percentage]_vars

(* C12: a COMPLETED video has credits_refunded = 0, and the balance of its
   owner keeps the debit of its credits_cost. *)
C12_CompletedKeepsDebit ==
    \A j \in VideoIds :
        (videos[j].present /\ videos[j].status = "COMPLETED")
           => /\ videos[j].credits_refunded = 0
              /\ credits_balance[videos[j].user_id]
                   <= InitialBalance[videos[j].user_id] - videos[j].credits_cost

(* a video that cost credits is COMPLETED and its owner is still debited *)
C12_Witness ==
    \E j \in VideoIds :
        /\ videos[j].present /\ videos[j].status = "COMPLETED"
        /\ videos[j].credits_cost > 0
        /\ credits_balance[videos[j].user_id]
             = InitialBalance[videos[j].user_id] - videos[j].credits_cost

(* C13: a FAILED video has exactly one REFUND entry in the ledger, however
   many times a failure handler has run for it. *)
C13_OneRefundPerFailedJob ==
    \A j \in VideoIds :
        (videos[j].present /\ videos[j].status = "FAILED")
           => Cardinality(LedgerEntries(j, "REFUND")) = 1

(* C14: the step that ends the download of a video the provider reported
   completed leaves the video COMPLETED or FAILED, never PROCESSING;
   COMPLETED only with content that arrived (file_size > 0), FAILED with an
   error message. *)
C14_ArtifactFailureMarksFailed ==
    [][\A j \in VideoIds :
          (tasks[j].pc = "download" /\ tasks'[j].pc # "download" /\ videos'[j].present)
             => /\ videos'[j].status \in {"COMPLETED", "FAILED"}
                /\ videos'[j].status = "COMPLETED" => videos'[j].file_size > 0
                /\ videos'[j].status = "FAILED"
                     => /\ videos'[j].error_message # "none"
                        /\ videos'[j].file_size = 0
                        /\ ~videos'[j].completed_at]_vars

(* the provider reported completed, download_video gave nothing, the video is FAILED *)
C14_Witness ==
    \E j \in VideoIds :
        /\ videos[j].present /\ videos[j].status = "FAILED"
        /\ videos[j].error_message = "Failed to download generated video"
        /\ tasks[j].pc = "done"

(* C15: s3_key is set on exactly the COMPLETED videos. *)
C15_StorageKeyIffCompleted ==
    \A j \in VideoIds :
        videos[j].present
           => (videos[j].status = "COMPLETED" <=> videos[j].s3_key # "none")

(* C16: error_message is set on exactly the FAILED videos. *)
C16_ErrorMessageIffFailed ==
    \A j \in VideoIds :
        videos[j].present
           => (videos[j].status = "FAILED" <=> videos[j].error_message # "none")

(* a failure the provider reported without a message got the default message *)
C16_Witness ==
    \E j \in VideoIds :
        /\ videos[j].present /\ videos[j].status = "FAILED"
        /\ videos[j].error_message = "Video generation failed"

(* C17: a video whose generate_video call at the provider fails goes from
   PENDING to FAILED without having been stored as PROCESSING, and its
   error_message is the text of the provider's exception. *)
C17_SubmitFailureSkipsProcessing ==
    [][\A j \in VideoIds :
          (/\ tasks[j].pc = "generate" /\ tasks'[j].pc = "done"
           /\ videos'[j].present /\ videos'[j].status = "FAILED")
             => /\ videos[j].status = "PENDING"
                /\ \E sdk \in SdkOutcomes, http \in HttpOutcomes :
                     videos'[j].error_message
                        = SubmitOutcome(TaskProvider(j), env, tasks[j].generation_request,
                                        FALSE, sdk, http).text]_vars

(* C18: for a FAILED video the background task has returned: no call of
   generate_video, get_status or download_video is pending or will be made. *)
C18_NoProviderCallAfterFailed ==
    \A j \in VideoIds :
        (videos[j].present /\ videos[j].status = "FAILED") => tasks[j].pc = "done"

(* the provider reported a failure on a poll and the task has returned *)
C18_Witness ==
    \E j \in VideoIds :
        /\ videos[j].present /\ videos[j].status = "FAILED"
        /\ videos[j].error_message = "connection refused"
        /\ tasks[j].pc = "done"

(* C19: every video has exactly one DEDUCTION entry in the ledger, whose
   amount is its credits_cost, and at most one REFUND entry. *)
C19_OneDeductionPerJob ==
    \A j \in VideoIds :
        videos[j].present
           => /\ Cardinality(LedgerEntries(j, "DEDUCTION")) = 1
              /\ \A i \in LedgerEntries(j, "DEDUCTION") :
                    transactions[i].amount = -videos[j].credits_cost
              /\ Cardinality(LedgerEntries(j, "REFUND")) <= 1

(* C20: no video exists for a provider that create_provider cannot
   construct in the environment of the service (unknown identifier, or API
   key absent). *)
C20_NoJobWithoutProvider ==
    \A j \in VideoIds :
        videos[j].present
           => create_provider(videos[j].provider, "none", env)
                 \notin {"ValueError", "RuntimeError"}

----------------------------------------------------------------------------
(* Properties of the provider layer *)

(* C21: create_provider raises the unsupported-provider error (ValueError)
   for an identifier that is not registered, whatever credentials are set or
   passed, and the provider-unavailable error (RuntimeError) for a registered
   identifier for which no API key is passed and none is set; neither call
   returns an instance. *)
C21_ConstructionFailures ==
    [][call'.fn = "create_provider"
         => LET id == call'.arg
                known == id \in DOMAIN ProviderFactory_providers
            IN  /\ ~known
                     => call'.result = "ValueError" /\ instances' = instances
                /\ (/\ known
                    /\ call'.api_key = "none"
                    /\ get_api_key_for_provider(id, env) = "none")
                     => call'.result = "RuntimeError" /\ instances' = instances]_vars

(* an unregistered identifier was refused though a key was passed and the
   key of the backend it spells is set *)
C21_Witness ==
    /\ call.fn = "create_provider"
    /\ call.arg = "Wan"
    /\ call.api_key = "k"
    /\ call.result = "ValueError"
    /\ env.api_keys = {"WAN_API_KEY"}
    /\ instances = <<>>

(* the spellings of each backend that differ in letter case or are aliases *)
Spellings ==
    [SoraProvider |-> {"sora", "Sora", "SORA", "SORA2"},
     Veo3Provider |-> {"veo3", "Veo3", "VEO3"},
     WANProvider |-> {"wan", "Wan", "WAN"}]

(* C22: with the credentials of a backend present, every spelling of its
   identifier (any letter case, any alias) constructs that backend. *)
C22_SpellingsResolveAlike ==
    call.fn = "create_provider"
       => \A class \in DOMAIN Spellings :
             (call.arg \in Spellings[class]
                /\ get_api_key_for_provider(ProviderName(class), env) # "none")
                => call.result = class

(* C23: no two provider objects handed out by the factory have the same
   class and the same credential: construction happens once per key. *)
C23_OneInstancePerKey ==
    \A i, k \in DOMAIN instances :
        (instances[i].class = instances[k].class
           /\ instances[i].api_key = instances[k].api_key) => i = k

(* C24: the provider listing has an entry for every registered provider,
   each entry is available exactly when the provider's API key is set, and
   each entry carries the provider's capability record. *)
C24_ListingCarriesCapabilities ==
    call.fn = "get_available_providers"
       => \A name \in DOMAIN ProviderFactory_providers :
             /\ name \in DOMAIN call.result
             /\ call.result[name].available
                   <=> (get_api_key_for_provider(name, env) # "none")
             /\ "capabilities" \in DOMAIN call.result[name]

(* C25: calculate_cost returns a value that depends on its input alone, and
   the call leaves balances, ledger and videos as they were. *)
C25_EstimateIsPure ==
    [][call'.fn = "calculate_cost"
         => /\ call'.result
                  = calculate_cost(call'.class, call'.request, call'.has_image_url)
            /\ UNCHANGED <<credits_balance, transactions, videos, tasks>>]_vars

(* an estimate was computed for a request with an image *)
C25_Witness ==
    /\ call.fn = "calculate_cost"
    /\ call.result > 0
    /\ call.has_image_url
    /\ credits_balance = InitialBalance
    /\ transactions = <<>>

(* C26: the estimate is duration x cost per second x image multiplier (when
   an image is given) x the multiplier of the resolution tier of the pixel
   count, rounded to hundredths; the tier multipliers 1.0 < 1.5 < 2.0 < 3.0
   < 4.0 rise with the tier, and raising the tier never lowers the estimate. *)
C26_EstimateFormula ==
    call.fn = "calculate_cost"
       => LET multiplier10 == <<10, 15, 20, 30, 40>>
              Tier(res) == LET pixels == res[1] * res[2] IN
                           IF pixels <= 345600 THEN 1
                           ELSE IF pixels <= 921600 THEN 2
                           ELSE IF pixels <= 2073600 THEN 3
                           ELSE IF pixels <= 8294400 THEN 4
                           ELSE 5
              c == get_capabilities(call.class)
              r == call.request
              image10 == IF call.has_image_url THEN c.image_cost_multiplier10 ELSE 10
              exact == r.duration_seconds * c.cost_per_second_milli * image10
                         * multiplier10[Tier(r.resolution)]
          IN  /\ \A t \in 1..4 : multiplier10[t] < multiplier10[t + 1]
              /\ Abs(1000 * call.result - exact) <= 500
              /\ \A res \in EstimateResolutions :
                    Tier(res) >= Tier(r.resolution)
                       => calculate_cost(call.class, [r EXCEPT !.resolution = res],
                                         call.has_image_url) >= call.result

(* five seconds from an image at 4K on Sora: 5 x 0.05 x 1.8 x 3.0 = 1.35 *)
C26_Witness ==
    /\ call.fn = "calculate_cost"
    /\ call.class = "SoraProvider"
    /\ call.has_image_url
    /\ call.request.duration_seconds = 5
    /\ call.request.resolution = <<3840, 2160>>
    /\ call.result = 135

(* C27: a video row, once inserted, is never removed. *)
C27_JobRetained ==
    [][\A j \in VideoIds : videos[j].present => videos'[j].present]_vars

(* C28: DELETE of a video that is PENDING or PROCESSING leaves the row in
   status CANCELLED and gives the owner the cost of the video back. *)
C28_DeleteCancelsAndRefunds ==
    [][\A j \in VideoIds :
          (/\ videos[j].present
           /\ videos[j].status \in {"PENDING", "PROCESSING"}
           /\ response'.op = "delete" /\ response'.code = 200 /\ response'.id = j
           /\ videos' # videos)
             => /\ videos'[j].present
                /\ videos'[j].status = "CANCELLED"
                /\ credits_balance'[videos[j].user_id]
                      = credits_balance[videos[j].user_id] + videos[j].credits_cost]_vars

(* C29: generate_video of the HTTP providers raises ProviderQuotaExceeded
   on HTTP 429, ProviderTimeout on a timeout, ProviderInvalidRequest on
   another 4xx and ProviderError on anything else that fails. *)
C29_SubmitErrorKinds ==
    (call.fn = "generate_video" /\ call.class \in {"SoraProvider", "WANProvider"})
       => call.result.kind =
             CASE call.http = "200" -> "ok"
               [] call.http = "429" -> "ProviderQuotaExceeded"
               [] call.http = "timeout" -> "ProviderTimeout"
               [] call.http = "400" -> "ProviderInvalidRequest"
               [] OTHER -> "ProviderError"

(* C30: POST /generate with an image_id that names no image of the caller
   answers 404 "Image not found" and writes nothing. *)
C30_MissingImageIs404 ==
    [][\A u \in Users, r \in Requests :
          (/\ response'.op = "generate"
           /\ response' # response
           /\ r.provider \in ProviderRows
           /\ r.image_id # "none" /\ ~ImageFound(u, r.image_id)
           /\ response' = Admission(u, r, env, credits_balance[u]))
             => /\ response'.code = 404
                /\ response'.detail = "Image not found"
                /\ UNCHANGED <<credits_balance, videos, transactions>>]_vars

----------------------------------------------------------------------------
(* Properties of admission and of the background task, continued *)

(* C31: a request admitted with the id of an image the caller owns is
   debited and recorded at the cost that includes the provider's image
   multiplier: calculate_cost of the request with its image. *)
C31_ImageMultiplierCharged ==
    [][\A u \in Users, r \in Requests :
          (/\ r.image_id # "none" /\ ImageFound(u, r.image_id)
           /\ generate_video(u, r)
           /\ AdmittedNow)
             => LET provider == get_provider_instance(r.provider, env)
                    with_image == calculate_cost(provider, r, TRUE)
                IN  /\ videos'[response'.id].credits_cost = with_image
                    /\ credits_balance'[u] = credits_balance[u] - with_image
                    /\ with_image > calculate_cost(provider, r, FALSE)]_vars

(* C32: while the task of a video polls or downloads, the provider_job_id
   stored in the row is the generation id that the task passes to get_status
   and download_video. *)
C32_StoredJobIdIsPolledId ==
    \A j \in VideoIds :
        (videos[j].present /\ tasks[j].pc \in {"poll", "status", "download"})
           => videos[j].provider_job_id = GenerationId(TaskProvider(j))

(* the capabilities of the provider class behind a provider type *)
ChosenCapabilities(provider_type) ==
    get_capabilities(ProviderFactory_providers[provider_type])

(* C33: a request that POST /generate admits has a positive duration within
   the maximum of its provider, a resolution within the provider's maximum,
   and a prompt that is not blank and within the provider's maximum length. *)
C33_AdmittedWithinCapabilities ==
    [][\A u \in Users, r \in Requests :
          (generate_video(u, r) /\ AdmittedNow)
             => LET c == ChosenCapabilities(r.provider)
                IN  /\ r.duration_seconds > 0
                    /\ r.duration_seconds <= c.max_duration_seconds
                    /\ r.resolution[1] <= c.max_resolution[1]
                    /\ r.resolution[2] <= c.max_resolution[2]
                    /\ Len(strip(r.prompt)) > 0
                    /\ Len(r.prompt) <= c.max_prompt]_vars

(* C34: a status that get_status of a provider returns is PROCESSING,
   COMPLETED or FAILED, and it carries a video_url only when it is
   COMPLETED. *)
C34_PollStatusesAndLocator ==
    (call.fn = "get_status" /\ call.result.raised = "none")
       => /\ call.result.status \in {"processing", "completed", "failed"}
          /\ call.result.video_url => call.result.status = "completed"

(* C35: once the row of a video that is being generated has been deleted, the
   background task finishes at most the turn of the loop it is in: a provider
   call in flight is its last step, a task asleep between two polls makes at
   most the one get_status call of that turn, and then the task returns; no
   step after the deletion writes the row, and a task that has returned
   takes no further step. *)
C35_DeletedJobStopsPolling ==
    [][\A j \in VideoIds :
          /\ (/\ tasks[j].pc \in {"generate", "status", "download"}
              /\ ~videos[j].present
              /\ tasks'[j] # tasks[j])
                => tasks'[j].pc = "done" /\ videos'[j] = videos[j]
          /\ (/\ tasks[j].pc = "poll"
              /\ ~videos[j].present
              /\ tasks'[j] # tasks[j])
                => /\ \/ tasks'[j].pc = "done"
                      \/ /\ tasks'[j].pc = "status"
                         /\ tasks'[j].attempt = tasks[j].attempt + 1
                   /\ videos'[j] = videos[j]
          /\ tasks[j].pc = "done"
                => /\ tasks'[j] = tasks[j]
                   /\ ~videos[j].present => videos'[j] = videos[j]]_vars

(* the row was deleted while a get_status call, not the first, was in flight *)
C35_Witness ==
    \E j \in VideoIds :
        /\ tasks[j].pc = "status" /\ tasks[j].attempt > 1
        /\ ~videos[j].present
        /\ response.op = "delete" /\ response.code = 200 /\ response.id = j

(* C36: credits_cost of a video row is written at admission and by nothing
   else: no step of the background task and no other request changes it
   while the row exists. *)
C36_CreditsCostImmutable ==
    [][\A j \in VideoIds :
          (videos[j].present /\ videos'[j].present)
             => videos'[j].credits_cost = videos[j].credits_cost]_vars

(* a WAN video, admitted at 0.15, whose task has run to completion *)
C36_Witness ==
    \E j \in VideoIds :
        /\ videos[j].present /\ videos[j].status = "COMPLETED"
        /\ videos[j].provider = "WAN" /\ videos[j].credits_cost = 15
        /\ videos[j].actual_duration = 5
        /\ tasks[j].pc = "done"

(* C37: the task starts the download only on a get_status that reported
   completed, and a video becomes COMPLETED only on a download that returned
   bytes that are not empty; a COMPLETED video has completed_at set and
   file_size equal to the number of bytes downloaded. *)
C37_CompletedOnlyWithArtifact ==
    [][\A j \in VideoIds :
          /\ (tasks'[j].pc = "download" /\ tasks[j].pc # "download")
                => /\ \/ tasks[j].pc = "status"
                      \/ tasks[j].pc = "poll" /\ ~GetStatusYields(TaskProvider(j))
                   /\ \E st \in provider_get_status(TaskProvider(j), env) :
                         /\ st.status = "completed"
                         /\ videos'[j].progress_percentage = st.progress_percentage
          /\ (videos'[j].status = "COMPLETED" /\ videos[j].status # "COMPLETED")
                => /\ tasks[j].pc = "download"
                   /\ \E content \in provider_download_video(TaskProvider(j), env) :
                         /\ content.kind = "bytes" /\ content.len > 0
                         /\ videos'[j].file_size = content.len
          /\ videos'[j].status = "COMPLETED"
                => videos'[j].completed_at /\ videos'[j].file_size > 0]_vars

(* 2048 bytes arrived for a video whose last status was completed at 100% *)
C37_Witness ==
    \E j \in VideoIds :
        /\ videos[j].present /\ videos[j].status = "COMPLETED"
        /\ videos[j].completed_at
        /\ videos[j].file_size = 2048
        /\ videos[j].progress_percentage = 100

(* C38: the debit and the video row of an admission are stored together: a
   step lowers the stored balance of a user exactly when it inserts one
   video of that user, by the credits_cost of that video, and a commit that
   fails leaves neither. *)
C38_DebitAndJobTogether ==
    [][\A u \in Users :
          LET inserted == {j \in VideoIds : /\ ~videos[j].present
                                            /\ videos'[j].present
                                            /\ videos'[j].user_id = u}
          IN  /\ credits_balance'[u] # credits_balance[u] => inserted # {}
              /\ inserted # {}
                    => /\ Cardinality(inserted) = 1
                       /\ \A j \in inserted :
                             /\ videos'[j].credits_cost > 0
                             /\ credits_balance'[u]
                                   = credits_balance[u] - videos'[j].credits_cost]_vars

(* C39: the task of a video is scheduled by the admission that debited the
   user and stored the row as PENDING, and by nothing else; it calls
   generate_video of the provider once, for a row that is still PENDING when
   the task starts, and after that call, failed or not, it never calls it
   again. *)
C39_SubmitOncePerAdmittedJob ==
    [][\A j \in VideoIds :
          /\ (tasks'[j].pc = "queued" /\ tasks[j].pc # "queued")
                => /\ tasks[j].pc = "none"
                   /\ AdmittedNow /\ response'.id = j
                   /\ ~videos[j].present
                   /\ videos'[j].present /\ videos'[j].status = "PENDING"
                   /\ credits_balance'[videos'[j].user_id]
                         = credits_balance[videos'[j].user_id] - videos'[j].credits_cost
          /\ (tasks'[j].pc = "generate" /\ tasks[j].pc # "generate")
                => /\ tasks[j].pc = "queued"
                   /\ videos[j].present /\ videos[j].status = "PENDING"
          /\ TaskGenerate(j) => tasks'[j].pc \in {"poll", "done"}
          /\ tasks[j].pc \in {"poll", "status", "download", "done"}
                => tasks'[j].pc \in {"poll", "status", "download", "done"}]_vars

(* the submit of a WAN video timed out and its task has returned *)
C39_Witness ==
    \E j \in VideoIds :
        /\ tasks[j].pc = "done"
        /\ videos[j].present /\ videos[j].status = "FAILED"
        /\ videos[j].error_message = "[wan] Request timed out"
        /\ videos[j].started_at /\ videos[j].provider_job_id = "none"

(* C40: a status request or a DELETE for a video of another user answers 404
   "Video not found", a listing never contains a video of another user, and
   none of the three requests changes a video or a balance. *)
C40_JobsIsolatedPerOwner ==
    [][\A u \in Users, j \in VideoIds :
          (videos[j].present /\ videos[j].user_id # u)
             => /\ get_video_status(u, j)
                     => /\ response'.code = 404 /\ response'.id = 0
                        /\ UNCHANGED <<videos, credits_balance>>
                /\ delete_video(u, j)
                     => /\ response'.code = 404 /\ response'.id = 0
                        /\ UNCHANGED <<videos, credits_balance>>
                /\ list_user_videos(u)
                     => /\ j \notin response'.videos
                        /\ UNCHANGED <<videos, credits_balance>>]_vars

(* user u1 has a video and the listing of the other user came back empty *)
C40_Witness ==
    /\ response.op = "list" /\ response.videos = {}
    /\ \E j \in VideoIds : videos[j].present /\ videos[j].user_id = "u1"

====
